---------------------------- MODULE Spec2Model ----------------------------
(***************************************************************************)
(* A model of the RF coverage and viewshed engine of lavalink-spectmap:    *)
(* elevation sampling (coverage_calculator.py), the bounded sampling batch *)
(* of calculate_viewshed, its result processing, the coverage cone, the    *)
(* raster viewshed, the frequency classifier and the radio profile of the  *)
(* Antenna model (models/antenna.py), the orientation of an access point   *)
(* as UNMSClient resolves it (unms_client.py), and the map request that    *)
(* runs one rendering task per antenna (app.py, map_renderer.py).          *)
(*                                                                         *)
(* Numbers.  Elevations, heights and distances are integers (metres).      *)
(* Angles are integers (degrees); tan() is a fixed-point table scaled by   *)
(* 10^5.  A projected point is named by its loop indices, the geodesic     *)
(* projection of geopy being a fixed map from (bearing, distance) to a     *)
(* coordinate.                                                             *)
(***************************************************************************)
EXTENDS Integers, Sequences, FiniteSets, TLC

(***************************************************************************)
(* Bounds of the model.                                                    *)
(***************************************************************************)
\* config map.arc_steps and map.arc_radial_points where calculate_viewshed
\* is taken as a function: a fan of ArcSteps + 1 rays of RadialPoints steps
ArcSteps == 1
RadialPoints == 3
\* the same two where the sampling batch runs task by task
BatchArcSteps == 1
BatchRadialPoints == 2
\* config map.processing_threads
ProcessingThreads == 2
\* concurrent calculate_viewshed calls (radios)
NumCalls == 2
\* rows and columns of the raster of the sampled dataset
RasterRows == 2
RasterCols == 3
\* how many cells of a raster may hold a spike
MaxSpikes == 2
\* how far beyond the raster's edge sampled coordinates reach (in units)
Margin == 2

VARIABLES
    config,       \* module global `config`, the loaded config.yaml (map section)
    dataset,      \* module global `dataset`: NoDataset or an open raster
    raster,       \* module globals raster_array, raster_transform, raster_crs
    sampleArg,    \* the (lat, lon) of the last get_elevation call
    sampleIo,     \* whether the blocking read of that call hit an I/O error
    sampleOut,    \* what that call gave its caller
    radio,        \* the arguments of calculate_viewshed and the calculator
    viewshed,     \* what calculate_viewshed returned
    callPc,       \* per concurrent call: idle, gathering or returned
    sem,          \* per call: the value of its asyncio.Semaphore
    taskPc,       \* per call and task: pending, reading or done
    taskIo,       \* per call and task: how its blocking read ended
    taskOut,      \* per call and task: what fetch_with_semaphore returned
    elevations,   \* per call: the list asyncio.gather returned
    boundary,     \* per call: the points the call returned
    antenna,      \* the Antenna record whose properties are read
    derived,      \* the values of its derived properties
    cone,         \* what calculate_coverage_cone returned
    devices,      \* the inventory get_devices returned (and devices.json)
    azimuthOut,   \* what get_azimuth or estimate_ap_azimuth gave its caller
    aps,          \* what get_aps gave its caller
    unit,         \* the Antenna whose beamwidth and range are resolved
    resolved,     \* the resolved beamwidths and range of that Antenna
    mask,         \* what calculate_viewshed_raster returned
    fleet,        \* the antennas generate_map got from get_aps
    coneTask,     \* per antenna: its add_antenna_directional_cone task
    renderer,     \* the MapRenderer: its layers, overlays and map file
    request       \* generate_map: none, gathering, served or failed

sampleVars == <<sampleArg, sampleIo, sampleOut>>
batchVars == <<callPc, sem, taskPc, taskIo, taskOut, elevations, boundary>>
freqVars == <<antenna, derived>>
unmsVars == <<devices, azimuthOut, aps>>
profileVars == <<unit, resolved>>
renderVars == <<fleet, coneTask, renderer, request>>
vars == <<config, dataset, raster, sampleArg, sampleIo, sampleOut, radio, viewshed,
          callPc, sem, taskPc, taskIo, taskOut, elevations, boundary,
          antenna, derived, cone, devices, azimuthOut, aps, unit, resolved,
          mask, fleet, coneTask, renderer, request>>

\* what the operations of each group leave alone
notSample == <<config, dataset, radio, viewshed, batchVars, freqVars, cone,
              unmsVars, profileVars, mask, renderVars>>
notLos == <<config, dataset, raster, radio, sampleVars, batchVars, freqVars, cone,
              unmsVars, profileVars, mask, renderVars>>
notBatch == <<config, dataset, raster, radio, sampleVars, viewshed, freqVars, cone,
              unmsVars, profileVars, mask, renderVars>>
notFreq == <<config, dataset, raster, radio, sampleVars, viewshed, batchVars, cone,
              unmsVars, profileVars, mask, renderVars>>
notCone == <<config, dataset, raster, radio, sampleVars, viewshed, batchVars, freqVars,
              unmsVars, profileVars, mask, renderVars>>
notUnms == <<config, dataset, raster, radio, sampleVars, viewshed, batchVars,
            freqVars, cone, profileVars, mask, renderVars>>
notProfile == <<config, dataset, raster, radio, sampleVars, viewshed, batchVars,
               freqVars, cone, unmsVars, mask, renderVars>>
notMask == <<config, dataset, radio, sampleVars, viewshed, batchVars,
            freqVars, cone, unmsVars, profileVars, renderVars>>
notRender == <<config, dataset, raster, radio, sampleVars, viewshed, batchVars,
              freqVars, cone, unmsVars, profileVars, mask>>

(***************************************************************************)
(* The elevation dataset.                                                  *)
(***************************************************************************)
\* `dataset = None`
NoDataset ==
    [open |-> FALSE, height |-> 0, width |-> 0, band |-> [c \in {} |-> 0]]

\* side of a raster cell in coordinate units (the affine transform's scale)
CellSize == 2

Cells == (0..(RasterRows - 1)) \X (0..(RasterCols - 1))

\* an opened north-up raster with band 1 = band, whose west edge is at
\* lon 0 and whose south edge is at lat 0
OpenDataset(band) ==
    [open |-> TRUE, height |-> RasterRows, width |-> RasterCols, band |-> band]

\* a surface that is nowhere zero and differs from cell to cell
SlopeBand == [c \in Cells |-> 100 + 10 * c[1] + c[2]]

\* dataset.index(lon, lat): the affine transform inverted and floored
DatasetIndex(ds, lon, lat) ==
    <<((ds.height * CellSize) - lat) \div CellSize, lon \div CellSize>>

\* (lat, lon) lies on the raster of the open dataset ds
InBounds(ds, lat, lon) ==
    /\ ds.open
    /\ 0 <= lon /\ lon < ds.width * CellSize
    /\ 0 < lat /\ lat <= ds.height * CellSize

\* no call yet
NoCall == [kind |-> "none", value |-> 0]

Returned(v) == [kind |-> "return", value |-> v]

\* an exception leaving the function
Raised == [kind |-> "raise", value |-> 0]

\* fetch_elevation reading the nearest cell for an index off the raster
fetch_elevation_clamped(ds, lat, lon, io) ==
    IF ~ds.open THEN Raised
    ELSE LET rc == DatasetIndex(ds, lon, lat)
             Clamp(x, hi) == IF x < 0 THEN 0 ELSE IF x > hi THEN hi ELSE x
         IN  IF io = "fail" THEN Raised
             ELSE Returned(ds.band[<<Clamp(rc[1], ds.height - 1),
                                     Clamp(rc[2], ds.width - 1)>>])

\* fetch_elevation: index, then a 1x1 windowed read of band 1. The read of a
\* window outside the raster fails in the library, as does one hit by an
\* I/O error; None has no attribute `index`.
fetch_elevation(ds, lat, lon, io) ==
    IF ~ds.open THEN Raised
    ELSE LET rc == DatasetIndex(ds, lon, lat) IN
         IF ~(rc[1] \in 0..(ds.height - 1) /\ rc[2] \in 0..(ds.width - 1))
         THEN Raised
         ELSE IF io = "fail" THEN Raised
         ELSE Returned(ds.band[rc])

\* get_elevation with the try/except made explicit (it re-raises nothing)
get_elevation_reraise(fetched) == fetched

\* get_elevation: try fetch, return float(value); except Exception: 0.0
get_elevation(fetched) ==
    IF fetched.kind = "raise" THEN Returned(0) ELSE Returned(fetched.value)


(***************************************************************************)
(* The parts of the state an operation does not touch: each specification  *)
(* below exercises one group of operations and leaves the rest as it is    *)
(* before any call.                                                        *)
(***************************************************************************)
\* preload_tiff has not run: the three globals are not yet bound
NoRaster == [loaded |-> FALSE, array |-> [c \in {} |-> 0]]
RasterIdle == raster = NoRaster

\* Python's None where a number is expected
None == 0 - 9999

\* no inventory was fetched and no azimuth asked for
NoAzimuth ==
    [op |-> "none", kind |-> "none", value |-> 0, read_note |-> FALSE,
     estimated |-> FALSE]
NoAps == [kind |-> "none", value |-> <<>>]
UnmsIdle == devices = <<>> /\ azimuthOut = NoAzimuth /\ aps = NoAps

\* no Antenna was built for its profile
NoUnit == [model |-> "", antenna |-> "", beamwidth_h |-> None, beamwidth_v |-> None]
NoResolved == [beamwidth_horizontal |-> None, beamwidth_vertical |-> None,
               model_beamwidth |-> <<None, None>>, range_m |-> None]
ProfileIdle == unit = NoUnit /\ resolved = NoResolved

\* calculate_viewshed_raster was not called
NoMask == [kind |-> "none", grid |-> <<>>, marks |-> {}]
MaskIdle == mask = NoMask

\* no map is being generated
NoRenderer ==
    [layer_5ghz |-> {}, layer_60ghz |-> {}, overlays |-> {}, polygons |-> {},
     finalized |-> FALSE, saved |-> FALSE]
RenderIdle ==
    /\ fleet = <<>>
    /\ coneTask = <<>>
    /\ renderer = NoRenderer
    /\ request = "none"

\* no get_elevation call was made on its own
SampleIdle ==
    /\ sampleArg = <<0, 0>>
    /\ sampleIo = "ok"
    /\ sampleOut = NoCall

NoResult == <<[ray |-> 0 - 2, step |-> 0]>>

\* no radio is being computed
NoRadio ==
    [azimuth |-> 0, height |-> 0, downtilt |-> 0, beamwidth |-> 0,
     distance_m |-> 0, station_height |-> 0]

\* no calculate_viewshed call was made
LosIdle == viewshed = NoResult

\* no derived property of an Antenna was read
NoAntenna == [frequency |-> 0, channel_width |-> 0]
NoDerived == [band |-> <<>>, band_name |-> "", channel_5 |-> 0, channel_60 |-> 0]
FreqIdle == antenna = NoAntenna /\ derived = NoDerived

\* no calculate_coverage_cone call was made
ConeIdle == cone = <<>>

Calls == 1..NumCalls

\* no calculate_viewshed call is running as a batch of tasks
BatchIdle ==
    /\ callPc = [c \in Calls |-> "idle"]
    /\ sem = [c \in Calls |-> 0]
    /\ taskPc = [c \in Calls |-> <<>>]
    /\ taskIo = [c \in Calls |-> <<>>]
    /\ taskOut = [c \in Calls |-> <<>>]
    /\ elevations = [c \in Calls |-> <<>>]
    /\ boundary = [c \in Calls |-> NoResult]

\* the map section of config.yaml
Config(steps, points, threads) ==
    [arc_steps |-> steps, arc_radial_points |-> points,
     processing_threads |-> threads]

(***************************************************************************)
(* calculate_viewshed: the fan of sampled points and the processing of    *)
(* the sampled elevations.                                                 *)
(***************************************************************************)
Rays == 0..config.arc_steps
StepsOfRay == 0..(config.arc_radial_points - 1)

\* the (ray, step) of the k-th task, k from 0: the order of lines 115-124
TaskRay(k) == k \div config.arc_radial_points
TaskStep(k) == k % config.arc_radial_points
NumTasks == (config.arc_steps + 1) * config.arc_radial_points

\* tan(radians(deg)) * 10^5, rounded
Tan5(deg) ==
    CASE deg = 0 -> 0
      [] deg = 5 -> 8749
      [] deg = 10 -> 17633
      [] deg = 45 -> 100000

Abs(x) == IF x < 0 THEN 0 - x ELSE x

\* The coordinate of step j on ray i. The radio stands in the raster's
\* north-west cell, every ray starts there (distance 0), and ray i then runs
\* east along row i. A beamwidth of 0 lays all rays on one bearing and a
\* beamwidth of 360 lays the last ray on the first.
Project(bw, i, j) ==
    LET row == IF j = 0 \/ bw = 0 \/ (bw = 360 /\ i = config.arc_steps) THEN 0 ELSE i
    IN  [lat |-> (RasterRows - row) * CellSize, lon |-> j * CellSize]

\* np.linspace(0, distance_m, num=points_per_line)[j], times LinDen
LinDen == IF config.arc_radial_points > 1 THEN config.arc_radial_points - 1 ELSE 1
DistTimesDen(r, j) == j * r.distance_m

\* lines 153-156 without the receiver height
ObstructsNoStation(terrain, r, j) ==
    (terrain - r.height) * LinDen * 100000
        > 0 - DistTimesDen(r, j) * Tan5(Abs(r.downtilt))

\* lines 153-156: terrain_elevation > signal_height + station_height, with
\* signal_height = antenna_height - dist * tan(downtilt_rad)
Obstructs(terrain, r, j) ==
    (terrain - r.height - r.station_height) * LinDen * 100000
        > 0 - DistTimesDen(r, j) * Tan5(Abs(r.downtilt))

Point(i, j) == [ray |-> i, step |-> j]
Origin == [ray |-> 0 - 1, step |-> 0]

\* the inner loop (lines 133-160) of ray i from step j on; acc holds the
\* points so far, task_index and the record of the elevations read
RECURSIVE ProcessLine(_, _, _, _, _)
ProcessLine(elevs, r, i, j, acc) ==
    IF j > config.arc_radial_points - 1 THEN acc
    ELSE LET e == elevs[acc.task_index + 1]
             next == [acc EXCEPT !.task_index = @ + 1,
                                 !.used = Append(@, [ray |-> i, step |-> j,
                                                     task_index |-> acc.task_index])]
         IN  IF e.kind = "raise"
             THEN ProcessLine(elevs, r, i, j + 1, next)
             ELSE IF Obstructs(e.value, r, j)
             THEN next
             ELSE ProcessLine(elevs, r, i, j + 1,
                              [next EXCEPT !.points = Append(@, Point(i, j))])

\* the outer loop (lines 131-160) from ray i on
RECURSIVE ProcessRays(_, _, _, _)
ProcessRays(elevs, r, i, acc) ==
    IF i > config.arc_steps THEN acc
    ELSE ProcessRays(elevs, r, i + 1, ProcessLine(elevs, r, i, 0, acc))

\* lines 162-164 with the origin inserted whatever the beamwidth
WithOriginAlways(bw, points) == <<Origin>> \o points

\* lines 162-164
WithOrigin(bw, points) ==
    IF bw # 360 /\ bw # 0 THEN <<Origin>> \o points ELSE points

\* lines 129-166: what calculate_viewshed returns for the gathered elevs
ProcessResults(elevs, r) ==
    WithOrigin(r.beamwidth,
        ProcessRays(elevs, r, 0,
                    [points |-> <<>>, task_index |-> 0, used |-> <<>>]).points)

\* lines 129-160: which elevation (by its index in the gathered list) the
\* loops read for each (ray, step) they examined, in the order they did
ConsumptionLog(elevs, r) ==
    ProcessRays(elevs, r, 0, [points |-> <<>>, task_index |-> 0, used |-> <<>>]).used

\* what the k-th task (from 0) of the batch returns when its read ends io
TaskResult(ds, r, k, io) ==
    LET p == Project(r.beamwidth, TaskRay(k), TaskStep(k))
    IN  get_elevation(fetch_elevation(ds, p.lat, p.lon, io))

\* bands that are flat at 0 but for at most MaxSpikes spikes
Spike == 1000
SpikeBands ==
    { [c \in Cells |-> IF c \in S THEN Spike ELSE 0] :
        S \in {T \in SUBSET Cells : Cardinality(T) <= MaxSpikes} }
FlatBand == [c \in Cells |-> 0]

Radios ==
    [azimuth : {0}, height : {30}, downtilt : {0, 5}, beamwidth : {0, 90, 360},
     distance_m : {400, 411, 412, 5000}, station_height : {6, 10}]

InitLos ==
    /\ config = Config(ArcSteps, RadialPoints, ProcessingThreads)
    /\ dataset \in {NoDataset} \cup {OpenDataset(b) : b \in SpikeBands}
    /\ radio \in Radios
    /\ viewshed = NoResult
    /\ RasterIdle
    /\ UnmsIdle
    /\ ProfileIdle
    /\ MaskIdle
    /\ RenderIdle
    /\ SampleIdle
    /\ BatchIdle
    /\ FreqIdle
    /\ ConeIdle

\* calculate_viewshed as a function of its arguments and the dataset: the
\* batch with no I/O error, then the processing of its results
calculate_viewshed ==
    /\ viewshed = NoResult
    /\ viewshed' = ProcessResults(
           [k \in 1..NumTasks |-> TaskResult(dataset, radio, k - 1, "ok")], radio)
    /\ UNCHANGED notLos

NextLos == calculate_viewshed

SpecLos == InitLos /\ [][NextLos]_vars

Range(f) == {f[x] : x \in DOMAIN f}

\* the terrain elevation the dataset holds at step j of ray i
TerrainAt(ds, bw, i, j) ==
    LET p == Project(bw, i, j) IN ds.band[DatasetIndex(ds, p.lon, p.lat)]

\* step j of ray i lies in the dataset and its terrain blocks the line of sight
TrulyObstructed(i, j) ==
    LET p == Project(radio.beamwidth, i, j)
    IN  /\ InBounds(dataset, p.lat, p.lon)
        /\ Obstructs(TerrainAt(dataset, radio.beamwidth, i, j), radio, j)

\* C1: over a loaded DEM, the returned boundary holds no point at or beyond
\* the first obstructed distance step of its own ray, on every ray of the fan.
C1_NoPointBeyondObstruction ==
    (viewshed # NoResult /\ dataset.open) =>
        \A i \in Rays, j \in StepsOfRay :
            (\E j0 \in 0..j : TrulyObstructed(i, j0))
                => Point(i, j) \notin Range(viewshed)

\* the end-to-end scenario: a flat DEM at 0, height 30, downtilt 5, beamwidth 90
FlatScenario ==
    /\ dataset = OpenDataset(FlatBand)
    /\ radio.height = 30 /\ radio.downtilt = 5 /\ radio.beamwidth = 90
    /\ viewshed # NoResult

EndpointOnEveryRay ==
    \A i \in Rays : Point(i, config.arc_radial_points - 1) \in Range(viewshed)

\* C7 as stated: in the flat scenario the boundary holds, for every ray, the
\* endpoint at the full range distance_m.
C7_FlatEndpointAlways == FlatScenario => EndpointOnEveryRay

\* C7 amended: in the flat scenario the endpoint at distance_m is in the
\* boundary, on every ray alike, exactly when the beam has not yet sunk below
\* ground plus receiver height there: distance_m * tan(5) <= 30 + station_height.
C7_FlatEndpointWithinReach ==
    FlatScenario =>
        \A i \in Rays :
            Point(i, config.arc_radial_points - 1) \in Range(viewshed)
                <=> radio.distance_m * Tan5(5)
                        <= (30 + radio.station_height) * 100000

\* the flat scenario with a range the beam covers: every endpoint is present
C7_Witness ==
    /\ FlatScenario
    /\ radio.distance_m = 400 /\ radio.station_height = 6
    /\ EndpointOnEveryRay


(***************************************************************************)
(* Sampling one coordinate.                                                *)
(***************************************************************************)
Lats == (0 - Margin)..(RasterRows * CellSize + Margin)
Lons == (0 - Margin)..(RasterCols * CellSize + Margin)

InitSample ==
    /\ config = Config(ArcSteps, RadialPoints, ProcessingThreads)
    /\ dataset \in {NoDataset, OpenDataset(SlopeBand)}
    /\ radio = NoRadio
    /\ RasterIdle
    /\ UnmsIdle
    /\ ProfileIdle
    /\ MaskIdle
    /\ RenderIdle
    /\ SampleIdle
    /\ LosIdle
    /\ BatchIdle
    /\ FreqIdle
    /\ ConeIdle

\* one call get_elevation(lat, lon)
SampleElevation ==
    \E lat \in Lats, lon \in Lons, io \in {"ok", "fail"} :
        /\ sampleArg' = <<lat, lon>>
        /\ sampleIo' = io
        /\ sampleOut' = get_elevation(fetch_elevation(dataset, lat, lon, io))
        /\ UNCHANGED <<notSample, raster>>

\* raster_array, raster_transform and raster_crs as preload_tiff binds them
\* from the file config map.srtm_file names
LoadedRaster(band) == [loaded |-> TRUE, array |-> band]

\* preload_tiff, the file opening: band 1, the transform and the CRS are
\* bound to the three raster globals; `dataset`, though declared global, is
\* not assigned. (A file that cannot be opened ends the process, line 67.)
preload_tiff ==
    /\ raster = NoRaster
    /\ raster' = LoadedRaster(SlopeBand)
    /\ UNCHANGED <<notSample, sampleVars>>

NextSample == SampleElevation \/ preload_tiff

SpecSample == InitSample /\ [][NextSample]_vars

\* C5: get_elevation on a coordinate outside the bounds of the loaded dataset
\* returns 0.0 and does not raise.
C5_OutOfBoundsIsZero ==
    (sampleOut # NoCall /\ dataset.open
        /\ ~InBounds(dataset, sampleArg[1], sampleArg[2]))
        => sampleOut = Returned(0)

\* a call outside the loaded dataset, with no I/O error, came back
C5_Witness ==
    /\ sampleOut = Returned(0)
    /\ dataset.open
    /\ sampleIo = "ok"
    /\ ~InBounds(dataset, sampleArg[1], sampleArg[2])

\* C6: a sample attempted while no dataset was supplied is reported to the
\* caller as a failure, not as the 0.0 sentinel.
C6_NoDatasetIsFatal ==
    (sampleOut # NoCall /\ ~dataset.open) => sampleOut.kind = "raise"

\* preload_tiff alone never supplies the dataset get_elevation reads
PreloadLeavesDatasetUnset ==
    [][raster' # raster => dataset' = dataset]_vars


(***************************************************************************)
(* calculate_viewshed as it runs: one task per (ray, step), admitted by    *)
(* the call's semaphore, gathered, then processed.                         *)
(***************************************************************************)
Tasks == 1..NumTasks

\* line 107 with one permit too many
SemaphoreOffByOne(cfg) == cfg.processing_threads + 1

\* line 107: asyncio.Semaphore(config['map']['processing_threads'])
NewSemaphore(cfg) == cfg.processing_threads

BatchRadio ==
    [azimuth |-> 0, height |-> 30, downtilt |-> 5, beamwidth |-> 90, distance_m |-> 400,
     station_height |-> 6]

InitBatch ==
    /\ config = Config(BatchArcSteps, BatchRadialPoints, ProcessingThreads)
    /\ dataset \in {NoDataset, OpenDataset(SlopeBand)}
    /\ radio = BatchRadio
    /\ LosIdle
    /\ RasterIdle
    /\ UnmsIdle
    /\ ProfileIdle
    /\ MaskIdle
    /\ RenderIdle
    /\ SampleIdle
    /\ BatchIdle
    /\ FreqIdle
    /\ ConeIdle

\* lines 101-127 up to the await: the semaphore and the tasks are created
\* and handed to asyncio.gather
StartViewshed(c) ==
    /\ callPc[c] = "idle"
    /\ callPc' = [callPc EXCEPT ![c] = "gathering"]
    /\ sem' = [sem EXCEPT ![c] = NewSemaphore(config)]
    /\ taskPc' = [taskPc EXCEPT ![c] = [k \in Tasks |-> "pending"]]
    /\ taskIo' = [taskIo EXCEPT ![c] = [k \in Tasks |-> "none"]]
    /\ taskOut' = [taskOut EXCEPT ![c] = [k \in Tasks |-> NoCall]]
    /\ UNCHANGED <<notBatch, elevations, boundary>>

\* line 110: a task enters `async with semaphore` and, through get_elevation,
\* hands its read to a worker thread (line 85)
Acquire(c, k) ==
    /\ callPc[c] = "gathering"
    /\ taskPc[c][k] = "pending"
    /\ sem[c] > 0
    /\ sem' = [sem EXCEPT ![c] = @ - 1]
    /\ taskPc' = [taskPc EXCEPT ![c][k] = "reading"]
    /\ UNCHANGED <<notBatch, callPc, taskIo, taskOut, elevations, boundary>>

\* the same with the semaphore released only after a read that succeeded
FinishReadKeepsPermitOnFailure(c, k) ==
    /\ callPc[c] = "gathering"
    /\ taskPc[c][k] = "reading"
    /\ \E io \in {"ok", "fail"} :
        /\ taskIo' = [taskIo EXCEPT ![c][k] = io]
        /\ taskOut' = [taskOut EXCEPT ![c][k] = TaskResult(dataset, radio, k - 1, io)]
        /\ sem' = [sem EXCEPT ![c] = IF io = "ok" THEN @ + 1 ELSE @]
    /\ taskPc' = [taskPc EXCEPT ![c][k] = "done"]
    /\ UNCHANGED <<notBatch, callPc, elevations, boundary>>

\* lines 85-93 and the exit of line 110: the read ends (it returns or it
\* raises), get_elevation returns and the semaphore is released
FinishRead(c, k) ==
    /\ callPc[c] = "gathering"
    /\ taskPc[c][k] = "reading"
    /\ \E io \in {"ok", "fail"} :
        /\ taskIo' = [taskIo EXCEPT ![c][k] = io]
        /\ taskOut' = [taskOut EXCEPT ![c][k] = TaskResult(dataset, radio, k - 1, io)]
    /\ sem' = [sem EXCEPT ![c] = @ + 1]
    /\ taskPc' = [taskPc EXCEPT ![c][k] = "done"]
    /\ UNCHANGED <<notBatch, callPc, elevations, boundary>>

\* lines 127-166: gather returns once every task is done; the results are
\* processed and the call returns
FinishViewshed(c) ==
    /\ callPc[c] = "gathering"
    /\ \A k \in Tasks : taskPc[c][k] = "done"
    /\ elevations' = [elevations EXCEPT ![c] = taskOut[c]]
    /\ boundary' = [boundary EXCEPT ![c] = ProcessResults(taskOut[c], radio)]
    /\ callPc' = [callPc EXCEPT ![c] = "returned"]
    /\ UNCHANGED <<notBatch, sem, taskPc, taskIo, taskOut>>

\* one calculate_viewshed call
NextBatch ==
    \/ StartViewshed(1)
    \/ \E k \in Tasks : Acquire(1, k)
    \/ \E k \in Tasks : FinishRead(1, k)
    \/ FinishViewshed(1)

SpecBatch == InitBatch /\ [][NextBatch]_vars

\* calculate_viewshed called for several radios on one event loop
NextRadios ==
    \/ \E c \in Calls : StartViewshed(c)
    \/ \E c \in Calls, k \in Tasks : Acquire(c, k)
    \/ \E c \in Calls, k \in Tasks : FinishRead(c, k)
    \/ \E c \in Calls : FinishViewshed(c)

SpecRadios == InitBatch /\ [][NextRadios]_vars

\* the reads of call c that were admitted and have not finished
InFlight(c) ==
    IF callPc[c] = "idle" THEN {} ELSE {k \in Tasks : taskPc[c][k] = "reading"}

\* C2: during one calculate_viewshed call at most processing_threads
\* elevation reads are admitted and not yet finished.
C2_InFlightWithinLimit ==
    Cardinality(InFlight(1)) <= config.processing_threads

\* the gate is full while a created task still waits for admission
C2_Witness ==
    /\ callPc[1] = "gathering"
    /\ Cardinality(InFlight(1)) = config.processing_threads
    /\ \E k \in Tasks : taskPc[1][k] = "pending"

RECURSIVE SumInFlight(_)
SumInFlight(cs) ==
    IF cs = {} THEN 0
    ELSE LET c == CHOOSE x \in cs : TRUE
         IN  Cardinality(InFlight(c)) + SumInFlight(cs \ {c})

\* C3: the in-flight elevation reads of all concurrent calculate_viewshed
\* calls together never exceed the one configured limit.
C3_TotalInFlightWithinLimit ==
    SumInFlight(Calls) <= config.processing_threads

\* what the read of task k must give: the terrain at its own point, or the
\* 0.0 sentinel when that read failed
OwnElevation(c, k) ==
    IF taskIo[c][k] = "fail" \/ ~dataset.open
    THEN Returned(0)
    ELSE Returned(TerrainAt(dataset, radio.beamwidth, TaskRay(k - 1), TaskStep(k - 1)))

\* C4: a failed read gives 0.0 for its own sample only; every finished sample
\* holds its own elevation whatever happened to its siblings, and the gathered
\* batch holds a result for every (ray, step) pair.
C4_FailureIsolated ==
    /\ callPc[1] # "idle" =>
          \A k \in Tasks : taskPc[1][k] = "done" => taskOut[1][k] = OwnElevation(1, k)
    /\ callPc[1] = "returned" =>
          /\ Len(elevations[1]) = NumTasks
          /\ \A k \in Tasks : elevations[1][k] = OwnElevation(1, k)

\* a batch returned in which one read failed and another succeeded
C4_Witness ==
    /\ callPc[1] = "returned"
    /\ dataset.open
    /\ \E k1, k2 \in Tasks :
          /\ taskIo[1][k1] = "fail" /\ elevations[1][k1] = Returned(0)
          /\ taskIo[1][k2] = "ok" /\ elevations[1][k2].value > 0

(***************************************************************************)
(* The derived properties of the Antenna model (models/antenna.py).        *)
(***************************************************************************)
\* Python's None as a band, a band name and a channel
NoBand == <<>>
NoBandName == "None"
NoChannel == 0 - 1

\* Antenna.frequency_band: the first branch that matches
frequency_band(f) ==
    IF f < 3000 THEN <<2400, 2495>>
    ELSE IF 5150 <= f /\ f < 5250 THEN <<5150, 5250>>
    ELSE IF 5250 <= f /\ f < 5350 THEN <<5250, 5350>>
    ELSE IF 5350 <= f /\ f < 5470 THEN <<5350, 5470>>
    ELSE IF 5470 <= f /\ f < 5725 THEN <<5470, 5725>>
    ELSE IF 5725 <= f /\ f < 5850 THEN <<5725, 5850>>
    ELSE IF 5850 <= f /\ f < 5925 THEN <<5850, 5925>>
    ELSE IF 5925 <= f /\ f < 7125 THEN <<5925, 7125>>
    ELSE IF 58000 <= f /\ f < 70000 THEN <<58000, 70000>>
    ELSE NoBand

\* Antenna.frequency_band_name
frequency_band_name(f) ==
    IF f < 3000 THEN "ISM"
    ELSE IF 5150 <= f /\ f < 5250 THEN "U-NII-1"
    ELSE IF 5250 <= f /\ f < 5350 THEN "U-NII-2A"
    ELSE IF 5350 <= f /\ f < 5470 THEN "U-NII-2B"
    ELSE IF 5470 <= f /\ f < 5725 THEN "U-NII-2C"
    ELSE IF 5725 <= f /\ f < 5850 THEN "U-NII-3"
    ELSE IF 5850 <= f /\ f < 5925 THEN "U-NII-4"
    ELSE IF 5925 <= f /\ f < 7125 THEN "U-NII-5...8"
    ELSE IF 58000 <= f /\ f < 70000 THEN "Vband"
    ELSE NoBandName

\* Antenna.channel_60
channel_60(f) ==
    CASE f = 58320 -> 1
      [] f = 60480 -> 2
      [] f = 62640 -> 3
      [] f = 64800 -> 4
      [] f = 66960 -> 5
      [] f = 69120 -> 6
      [] OTHER -> NoChannel

\* the branch of Antenna.channel_5 for channel_width == 20
Channel5Width20(f) ==
    CASE f = 5180 -> 36
      [] f = 5200 -> 40
      [] f = 5220 -> 44
      [] f = 5240 -> 48
      [] f = 5260 -> 52
      [] f = 5280 -> 56
      [] f = 5300 -> 60
      [] f = 5320 -> 64
      [] f = 5500 -> 100
      [] f = 5520 -> 104
      [] f = 5540 -> 108
      [] f = 5560 -> 112
      [] f = 5580 -> 116
      [] f = 5600 -> 120
      [] f = 5620 -> 124
      [] f = 5640 -> 128
      [] f = 5660 -> 132
      [] f = 5680 -> 136
      [] f = 5700 -> 140
      [] f = 5720 -> 144
      [] f = 5745 -> 149
      [] f = 5765 -> 153
      [] f = 5785 -> 157
      [] f = 5805 -> 161
      [] f = 5825 -> 165
      [] f = 5845 -> 169
      [] OTHER -> NoChannel

\* for channel_width == 40
Channel5Width40(f) ==
    CASE f = 5190 -> 38
      [] f = 5230 -> 46
      [] f = 5270 -> 54
      [] f = 5310 -> 62
      [] f = 5350 -> 70
      [] f = 5390 -> 78
      [] f = 5430 -> 86
      [] f = 5470 -> 94
      [] f = 5510 -> 102
      [] f = 5550 -> 110
      [] f = 5590 -> 118
      [] f = 5630 -> 126
      [] f = 5670 -> 134
      [] f = 5710 -> 142
      [] f = 5755 -> 151
      [] f = 5795 -> 159
      [] f = 5835 -> 167
      [] f = 5875 -> 175
      [] OTHER -> NoChannel

\* for channel_width == 80
Channel5Width80(f) ==
    CASE f = 5210 -> 42
      [] f = 5290 -> 58
      [] f = 5370 -> 74
      [] f = 5450 -> 90
      [] f = 5530 -> 106
      [] f = 5610 -> 122
      [] f = 5690 -> 138
      [] f = 5775 -> 155
      [] f = 5855 -> 171
      [] OTHER -> NoChannel

\* for channel_width == 160
Channel5Width160(f) ==
    CASE f = 5530 -> 106
      [] f = 5610 -> 122
      [] f = 5690 -> 138
      [] f = 5775 -> 155
      [] f = 5855 -> 171
      [] OTHER -> NoChannel

\* channel_5 reading the 20 MHz table for a width it does not know
channel_5_default_width(f, w) ==
    IF w = 40 THEN Channel5Width40(f)
    ELSE IF w = 80 THEN Channel5Width80(f)
    ELSE IF w = 160 THEN Channel5Width160(f)
    ELSE Channel5Width20(f)

\* Antenna.channel_5: the width picks the table; falling out of every branch
\* returns None
channel_5(f, w) ==
    IF w = 20 THEN Channel5Width20(f)
    ELSE IF w = 40 THEN Channel5Width40(f)
    ELSE IF w = 80 THEN Channel5Width80(f)
    ELSE IF w = 160 THEN Channel5Width160(f)
    ELSE NoChannel

\* the edges of the published bands
BandEdges ==
    {2400, 2495, 3000, 5150, 5250, 5350, 5470, 5725, 5850, 5925, 7000, 7125,
     58000, 70000}

\* the channel table of the 5 GHz band as (width, frequency, channel), and
\* of the 60 GHz band as (frequency, channel)
Table5 ==
    { <<20, 5180, 36>>, <<20, 5200, 40>>, <<20, 5220, 44>>,
      <<20, 5240, 48>>, <<20, 5260, 52>>, <<20, 5280, 56>>,
      <<20, 5300, 60>>, <<20, 5320, 64>>, <<20, 5500, 100>>,
      <<20, 5520, 104>>, <<20, 5540, 108>>, <<20, 5560, 112>>,
      <<20, 5580, 116>>, <<20, 5600, 120>>, <<20, 5620, 124>>,
      <<20, 5640, 128>>, <<20, 5660, 132>>, <<20, 5680, 136>>,
      <<20, 5700, 140>>, <<20, 5720, 144>>, <<20, 5745, 149>>,
      <<20, 5765, 153>>, <<20, 5785, 157>>, <<20, 5805, 161>>,
      <<20, 5825, 165>>, <<20, 5845, 169>>,
      <<40, 5190, 38>>, <<40, 5230, 46>>, <<40, 5270, 54>>,
      <<40, 5310, 62>>, <<40, 5350, 70>>, <<40, 5390, 78>>,
      <<40, 5430, 86>>, <<40, 5470, 94>>, <<40, 5510, 102>>,
      <<40, 5550, 110>>, <<40, 5590, 118>>, <<40, 5630, 126>>,
      <<40, 5670, 134>>, <<40, 5710, 142>>, <<40, 5755, 151>>,
      <<40, 5795, 159>>, <<40, 5835, 167>>, <<40, 5875, 175>>,
      <<80, 5210, 42>>, <<80, 5290, 58>>, <<80, 5370, 74>>,
      <<80, 5450, 90>>, <<80, 5530, 106>>, <<80, 5610, 122>>,
      <<80, 5690, 138>>, <<80, 5775, 155>>, <<80, 5855, 171>>,
      <<160, 5530, 106>>, <<160, 5610, 122>>, <<160, 5690, 138>>,
      <<160, 5775, 155>>, <<160, 5855, 171>> }
Table60 ==
    { <<58320, 1>>, <<60480, 2>>, <<62640, 3>>, <<64800, 4>>,
      <<66960, 5>>, <<69120, 6>> }

\* frequencies at, just below and just above every band edge and every
\* channel centre, and far-off ones
FreqSamples ==
    LET marks == BandEdges \cup {t[2] : t \in Table5} \cup {t[1] : t \in Table60}
    IN  {1000, 4000, 30000, 80000} \cup marks
            \cup {m - 1 : m \in marks} \cup {m + 1 : m \in marks}

WidthSamples == {0, 10, 20, 30, 40, 80, 160, 320}

InitFreq ==
    /\ config = Config(ArcSteps, RadialPoints, ProcessingThreads)
    /\ dataset = NoDataset
    /\ radio = NoRadio
    /\ RasterIdle
    /\ UnmsIdle
    /\ ProfileIdle
    /\ MaskIdle
    /\ RenderIdle
    /\ SampleIdle
    /\ LosIdle
    /\ BatchIdle
    /\ antenna \in [frequency : FreqSamples, channel_width : WidthSamples]
    /\ derived = NoDerived
    /\ ConeIdle

\* the derived properties of the Antenna are read
ReadDerived ==
    /\ derived = NoDerived
    /\ derived' = [band |-> frequency_band(antenna.frequency),
                   band_name |-> frequency_band_name(antenna.frequency),
                   channel_5 |-> channel_5(antenna.frequency, antenna.channel_width),
                   channel_60 |-> channel_60(antenna.frequency)]
    /\ UNCHANGED <<notFreq, antenna>>

NextFreq == ReadDerived

SpecFreq == InitFreq /\ [][NextFreq]_vars

\* the published bands, each the half-open interval [low, high)
PublishedBands ==
    { <<<<2400, 2495>>, "ISM">>, <<<<5150, 5250>>, "U-NII-1">>,
      <<<<5250, 5350>>, "U-NII-2A">>, <<<<5350, 5470>>, "U-NII-2B">>,
      <<<<5470, 5725>>, "U-NII-2C">>, <<<<5725, 5850>>, "U-NII-3">>,
      <<<<5850, 5925>>, "U-NII-4">>, <<<<5925, 7125>>, "U-NII-5...8">>,
      <<<<58000, 70000>>, "Vband">> }

InBand(f, b) == b[1][1] <= f /\ f < b[1][2]

\* C8: the band and the band name are those of the published interval
\* [low, high) that holds the frequency, and None for a frequency in none.
C8_PublishedPartition ==
    derived # NoDerived =>
        /\ \A b \in PublishedBands :
              InBand(antenna.frequency, b)
                  => derived.band = b[1] /\ derived.band_name = b[2]
        /\ (\A b \in PublishedBands : ~InBand(antenna.frequency, b))
              => derived.band = NoBand /\ derived.band_name = NoBandName

\* C9: channel_5 is the table's channel for a (width, frequency) of the
\* table and None for every other combination, whatever the width;
\* channel_60 is the table's channel for its frequency alone, else None.
C9_ChannelTables ==
    derived # NoDerived =>
        /\ \A t \in Table5 :
              (antenna.channel_width = t[1] /\ antenna.frequency = t[2])
                  => derived.channel_5 = t[3]
        /\ (\A t \in Table5 :
                ~(antenna.channel_width = t[1] /\ antenna.frequency = t[2]))
              => derived.channel_5 = NoChannel
        /\ \A t \in Table60 : antenna.frequency = t[1] => derived.channel_60 = t[2]
        /\ (\A t \in Table60 : antenna.frequency # t[1])
              => derived.channel_60 = NoChannel
        /\ (antenna.frequency = 5500 /\ antenna.channel_width = 20)
              => derived.channel_5 = 100

\* frequency 5500 at width 20 was read as channel 100
C9_Witness ==
    /\ antenna = [frequency |-> 5500, channel_width |-> 20]
    /\ derived.channel_5 = 100
    /\ derived.channel_60 = NoChannel

(***************************************************************************)
(* calculate_coverage_cone.                                                *)
(***************************************************************************)
\* line 182: steps = 36
ConeSteps == 36

\* lines 185-188 and 194: min(ground_distance, distance_m) in whole metres,
\* ground_distance being distance_m for a downtilt of 0 and
\* antenna_height / tan(|downtilt|) otherwise
ConeDistance(r) ==
    LET t == Tan5(Abs(r.downtilt))
    IN  IF t <= 0 THEN r.distance_m
        ELSE IF r.height * 100000 < r.distance_m * t
        THEN (r.height * 100000) \div t
        ELSE r.distance_m

\* line 193 in units of 1/72 degree: the bearing of ray i of the fan
ConeBearing72(r, i) == 72 * r.azimuth - 36 * r.beamwidth + 2 * r.beamwidth * i

ConePoint(r, i) ==
    [kind |-> "arc", bearing72 |-> ConeBearing72(r, i), dist |-> ConeDistance(r)]

ConeOrigin == [kind |-> "origin", bearing72 |-> 0, dist |-> 0]

\* the loop of lines 192-202 running over range(steps)
ConeArcWithoutEndEdge(r) == [n \in 1..ConeSteps |-> ConePoint(r, n - 1)]

\* lines 192-202: one projected point per i in range(steps + 1)
ConeArc(r) == [n \in 1..(ConeSteps + 1) |-> ConePoint(r, n - 1)]

\* lines 176-209
coverage_cone(r) ==
    IF r.beamwidth # 360 /\ r.beamwidth # 0
    THEN <<ConeOrigin>> \o ConeArc(r)
    ELSE ConeArc(r)

ConeRadios ==
    [azimuth : {0, 45, 350}, height : {0, 30}, downtilt : {0, 5, 0 - 5},
     beamwidth : {0, 30, 90, 360}, distance_m : {300, 5000},
     station_height : {0}]

InitCone ==
    /\ config = Config(ArcSteps, RadialPoints, ProcessingThreads)
    /\ dataset = NoDataset
    /\ radio \in ConeRadios
    /\ RasterIdle
    /\ UnmsIdle
    /\ ProfileIdle
    /\ MaskIdle
    /\ RenderIdle
    /\ SampleIdle
    /\ LosIdle
    /\ BatchIdle
    /\ FreqIdle
    /\ ConeIdle

\* one call of calculate_coverage_cone
calculate_coverage_cone ==
    /\ cone = <<>>
    /\ cone' = coverage_cone(radio)
    /\ UNCHANGED notCone

NextCone == calculate_coverage_cone

SpecCone == InitCone /\ [][NextCone]_vars

Directional == radio.beamwidth # 0 /\ radio.beamwidth # 360

\* the returned points without the origin vertex in front
ConeBoundary == IF Directional THEN Tail(cone) ELSE cone

\* C10: the cone has exactly 37 boundary points, preceded by exactly one origin
\* point when the beamwidth is neither 0 nor 360; the first boundary point lies
\* at bearing azimuth - beamwidth/2, the last at azimuth + beamwidth/2, and
\* the bearings between rise in 36 equal steps.
C10_ConeShape ==
    cone # <<>> =>
        /\ Len(cone) = IF Directional THEN 38 ELSE 37
        /\ Directional => cone[1] = ConeOrigin
        /\ Len(ConeBoundary) = 37
        /\ \A n \in DOMAIN ConeBoundary : ConeBoundary[n].kind = "arc"
        /\ 2 * ConeBoundary[1].bearing72 = 72 * (2 * radio.azimuth - radio.beamwidth)
        /\ 2 * ConeBoundary[Len(ConeBoundary)].bearing72
              = 72 * (2 * radio.azimuth + radio.beamwidth)
        /\ \A n \in 1..(Len(ConeBoundary) - 1) :
              36 * (ConeBoundary[n + 1].bearing72 - ConeBoundary[n].bearing72)
                  = 72 * radio.beamwidth

\* the cone of a 90 degree sector was returned with its origin in front
C10_Witness ==
    /\ cone # <<>>
    /\ radio.beamwidth = 90
    /\ Len(cone) = 38
    /\ cone[1].kind = "origin"
    /\ cone[38].kind = "arc"

\* antenna_height / tan(downtilt) in whole metres, for a downtilt above 0
GroundIntersection(r) == (r.height * 100000) \div Tan5(r.downtilt)

Min(a, b) == IF a < b THEN a ELSE b

\* C11: every ray of the cone lies at max_distance_m when the downtilt is zero
\* or negative (the ground-intersection term is not used), and at
\* min(antenna_height / tan(downtilt), max_distance_m) when it is positive.
C11_ConeDistanceBySign ==
    cone # <<>> =>
        \A n \in DOMAIN ConeBoundary :
            ConeBoundary[n].dist =
                IF radio.downtilt <= 0 THEN radio.distance_m
                ELSE Min(GroundIntersection(radio), radio.distance_m)

(***************************************************************************)
(* The origin vertex of both polygon generators.                           *)
(***************************************************************************)
\* one calculator asked for its cone and for its viewshed, in either order
NextOrigin == calculate_viewshed \/ calculate_coverage_cone

SpecOrigin == InitLos /\ [][NextOrigin]_vars

\* the returned viewshed without the origin vertex in front
ViewshedBoundary == IF Directional THEN Tail(viewshed) ELSE viewshed

\* point p is sampled before point q in the loops of lines 131-133
SampledBefore(p, q) == p.ray < q.ray \/ (p.ray = q.ray /\ p.step < q.step)

\* C12: both generators put the radio's own position first exactly when the
\* beamwidth is neither 0 nor 360; no origin vertex stands anywhere else, and
\* the other points keep the order in which the loops produced them.
C12_OriginFirstWhenDirectional ==
    /\ viewshed # NoResult =>
          /\ Directional <=> (viewshed # <<>> /\ Head(viewshed) = Origin)
          /\ \A n \in DOMAIN ViewshedBoundary :
                /\ ViewshedBoundary[n] # Origin
                /\ ViewshedBoundary[n].ray \in Rays
                /\ n > 1 => SampledBefore(ViewshedBoundary[n - 1],
                                          ViewshedBoundary[n])
    /\ cone # <<>> =>
          /\ Directional <=> Head(cone) = ConeOrigin
          /\ \A n \in DOMAIN ConeBoundary :
                ConeBoundary[n] = ConePoint(radio, n - 1)

\* a 90 degree sector whose viewshed and cone both came back, origin first
C12_Witness ==
    /\ radio.beamwidth = 90
    /\ viewshed # NoResult /\ Len(viewshed) > 2 /\ Head(viewshed) = Origin
    /\ cone # <<>> /\ Head(cone) = ConeOrigin

(***************************************************************************)
(* UNMSClient: the orientation of an access point (unms_client.py).        *)
(* Coordinates are integers (micro-degrees); the access point asked about  *)
(* stands at (0, 0) and is the first device of the inventory.              *)
(***************************************************************************)
\* how many devices the inventory holds besides the access point
MaxStations == 2

\* device['meta']['note']: absent, or a string that is or is not JSON, whose
\* object has or has not the key "azimuth"
NoNote == [present |-> FALSE, json |-> FALSE, has_azimuth |-> FALSE, azimuth |-> 0]
NoteAzimuth(a) == [present |-> TRUE, json |-> TRUE, has_azimuth |-> TRUE, azimuth |-> a]
NoteOther == [present |-> TRUE, json |-> TRUE, has_azimuth |-> FALSE, azimuth |-> 0]
NoteText == [present |-> TRUE, json |-> FALSE, has_azimuth |-> FALSE, azimuth |-> 0]

\* device['attributes'] is None
NoAttributes == "None"

\* one entry of the inventory, with the keys the client reads
Device(ap, ssid, lat, lon, heading, tilt, frequency, note) ==
    [is_ap |-> ap, ssid |-> ssid, latitude |-> lat, longitude |-> lon,
     heading |-> heading, tilt |-> tilt, frequency |-> frequency, note |-> note]

\* x and y of lines 173-175 times 10^7 for a station at (lat, lon), the access
\* point standing at (0, 0): stations 1 km away at bearings 0, 10, 90, 180,
\* 270 and 350 degrees, one 10 km away at bearing 350, and the point itself
BearingVector(lat, lon) ==
    CASE lat = 0 /\ lon = 0 -> <<0, 0>>
      [] lat = 8993 /\ lon = 0 -> <<0, 1570>>
      [] lat = 8857 /\ lon = 1562 -> <<273, 1546>>
      [] lat = 8857 /\ lon = 0 - 1562 -> <<0 - 273, 1546>>
      [] lat = 88566 /\ lon = 0 - 15617 -> <<0 - 2726, 15458>>
      [] lat = 0 /\ lon = 8993 -> <<1570, 0>>
      [] lat = 0 - 8993 /\ lon = 0 -> <<0, 0 - 1570>>
      [] lat = 0 /\ lon = 0 - 8993 -> <<0 - 1570, 0>>

\* sin(radians(a)) * 10^4 for a multiple a of 5 in 0..90
Sin5(a) ==
    CASE a = 0 -> 0 [] a = 5 -> 872 [] a = 10 -> 1736 [] a = 15 -> 2588
      [] a = 20 -> 3420 [] a = 25 -> 4226 [] a = 30 -> 5000 [] a = 35 -> 5736
      [] a = 40 -> 6428 [] a = 45 -> 7071 [] a = 50 -> 7660 [] a = 55 -> 8192
      [] a = 60 -> 8660 [] a = 65 -> 9063 [] a = 70 -> 9397 [] a = 75 -> 9659
      [] a = 80 -> 9848 [] a = 85 -> 9962 [] a = 90 -> 10000

\* sin and cos of any multiple of 5 in -180..180, times 10^4
Sin(a) ==
    IF a < 0 THEN 0 - Sin5(IF a < 0 - 90 THEN 180 + a ELSE 0 - a)
    ELSE Sin5(IF a > 90 THEN 180 - a ELSE a)
Cos(a) ==
    LET b == Abs(a) IN IF b > 90 THEN 0 - Sin5(b - 90) ELSE Sin5(90 - b)

GridAngles == {5 * k : k \in (0 - 35)..36}

\* math.degrees(math.atan2(x, y)), to the nearest multiple of 5 in
\* (-180, 180]: the grid direction of the quadrant of (x, y) on which (x, y)
\* projects longest; atan2(0, 0) is 0
Atan2Degrees(x, y) ==
    IF x = 0 /\ y = 0 THEN 0
    ELSE LET near == {a \in GridAngles : x * Sin(a) >= 0 /\ y * Cos(a) >= 0}
             along == [a \in near |-> x * Sin(a) + y * Cos(a)]
             best == {a \in near : \A b \in near : along[a] >= along[b]}
         IN  CHOOSE a \in best : \A b \in best : a >= b

\* lines 138-143 from device n of the inventory on: the coordinates of every
\* device whose ssid is the access point's, or the exception of
\* ap_device.get('attributes') being None
RECURSIVE ChildCoords(_, _, _, _)
ChildCoords(devs, ap, n, acc) ==
    IF n > Len(devs) THEN Returned(acc)
    ELSE LET d == devs[n] IN
         IF d.ssid = NoAttributes THEN ChildCoords(devs, ap, n + 1, acc)
         ELSE IF ap.ssid = NoAttributes THEN Raised
         ELSE IF d.ssid # ap.ssid THEN ChildCoords(devs, ap, n + 1, acc)
         ELSE IF d.latitude # None /\ d.longitude # None
         THEN ChildCoords(devs, ap, n + 1,
                          Append(acc, <<d.latitude, d.longitude>>))
         ELSE ChildCoords(devs, ap, n + 1, acc)

\* lines 120-145
get_child_stations_coords(devs, ap) == ChildCoords(devs, ap, 1, <<>>)

\* lines 163-178: the sums of x and of y over the coordinates from n on
RECURSIVE SumVectors(_, _, _)
SumVectors(coords, n, acc) ==
    IF n > Len(coords) THEN acc
    ELSE LET v == BearingVector(coords[n][1], coords[n][2])
         IN  SumVectors(coords, n + 1, <<acc[1] + v[1], acc[2] + v[2]>>)

\* lines 185-186 adding the turn to an angle of 0 as well
NormalizeFromZero(deg) == IF deg <= 0 THEN deg + 360 ELSE deg

\* lines 185-186
Normalize(deg) == IF deg < 0 THEN deg + 360 ELSE deg

\* lines 147-190; math.radians(None) raises for an access point without
\* coordinates once there is a station to take the bearing of
estimate_ap_azimuth(devs, ap) ==
    LET children == get_child_stations_coords(devs, ap) IN
    IF children.kind = "raise" THEN Raised
    ELSE IF children.value = <<>> THEN Returned(0)
    ELSE IF ap.latitude = None \/ ap.longitude = None THEN Raised
    ELSE LET sum == SumVectors(children.value, 1, <<0, 0>>)
         IN  Returned(Normalize(Atan2Degrees(sum[1], sum[2])))

\* what get_azimuth or estimate_ap_azimuth gave, and what it consulted
Azimuth(op, out, note, est) ==
    [op |-> op, kind |-> out.kind, value |-> out.value, read_note |-> note,
     estimated |-> est]

\* lines 70-86. A heading of None or 0 is falsy; a note that is not JSON
\* fails in json.loads and one without "azimuth" in the print of line 81.
get_azimuth(devs, device) ==
    IF device.heading # None /\ device.heading # 0
    THEN Azimuth("get_azimuth", Returned(device.heading), FALSE, FALSE)
    ELSE IF device.note.present /\ ~device.note.json
    THEN Azimuth("get_azimuth", Raised, TRUE, FALSE)
    ELSE IF device.note.present /\ ~device.note.has_azimuth
    THEN Azimuth("get_azimuth", Raised, TRUE, FALSE)
    ELSE IF device.note.present
    THEN Azimuth("get_azimuth", Returned(device.note.azimuth), TRUE, FALSE)
    ELSE Azimuth("get_azimuth", estimate_ap_azimuth(devs, device), TRUE, TRUE)

\* the access point asked about: it broadcasts "net1", stands at (0, 0) or has
\* no coordinates, and has or has not a compass heading and a note
AccessPoints ==
    { Device(TRUE, "net1", c, c, h, None, 5500, n) :
        c \in {0, None}, h \in {None, 0, 90},
        n \in {NoNote, NoteAzimuth(45), NoteOther, NoteText} }

StationCoords ==
    { <<8993, 0>>, <<8857, 1562>>, <<8857, 0 - 1562>>, <<88566, 0 - 15617>>,
      <<0, 8993>>, <<0 - 8993, 0>>, <<0, 0 - 8993>>, <<None, None>> }

\* the other devices of the inventory: stations of the access point's ssid,
\* one of another ssid and one device without attributes
Stations ==
    { Device(FALSE, "net1", c[1], c[2], None, None, 5500, NoNote) :
        c \in StationCoords }
    \cup { Device(FALSE, "net2", 8993, 0, None, None, 5500, NoNote),
           Device(FALSE, NoAttributes, 0 - 8993, 0, None, None, 0, NoNote) }

SeqsUpTo(S, n) == UNION { [1..k -> S] : k \in 0..n }

InitAzimuth ==
    /\ config = Config(ArcSteps, RadialPoints, ProcessingThreads)
    /\ dataset = NoDataset
    /\ radio = NoRadio
    /\ RasterIdle
    /\ ProfileIdle
    /\ MaskIdle
    /\ RenderIdle
    /\ SampleIdle
    /\ LosIdle
    /\ BatchIdle
    /\ FreqIdle
    /\ ConeIdle
    /\ \E ap \in AccessPoints, others \in SeqsUpTo(Stations, MaxStations) :
          devices = <<ap>> \o others
    /\ azimuthOut = NoAzimuth
    /\ aps = NoAps

\* get_azimuth asked for the access point's orientation
CallGetAzimuth ==
    /\ azimuthOut = NoAzimuth
    /\ azimuthOut' = get_azimuth(devices, devices[1])
    /\ UNCHANGED <<notUnms, devices, aps>>

\* estimate_ap_azimuth called on its own
CallEstimate ==
    /\ azimuthOut = NoAzimuth
    /\ azimuthOut' = Azimuth("estimate_ap_azimuth",
                             estimate_ap_azimuth(devices, devices[1]),
                             FALSE, TRUE)
    /\ UNCHANGED <<notUnms, devices, aps>>

NextAzimuth == CallGetAzimuth \/ CallEstimate

SpecAzimuth == InitAzimuth /\ [][NextAzimuth]_vars

TheAp == devices[1]

\* the override a note carries: a JSON object with the key "azimuth"
HasOverride(d) == d.note.present /\ d.note.json /\ d.note.has_azimuth

\* C13: a reported heading (0 included) is returned and neither the note nor
\* the estimator is consulted; without a heading the note's override is
\* returned; the estimator runs only without heading and without override.
C13_StrictPriority ==
    azimuthOut.op = "get_azimuth" =>
        /\ TheAp.heading # None =>
              /\ azimuthOut.kind = "return" /\ azimuthOut.value = TheAp.heading
              /\ ~azimuthOut.read_note /\ ~azimuthOut.estimated
        /\ (TheAp.heading = None /\ HasOverride(TheAp)) =>
              /\ azimuthOut.kind = "return"
              /\ azimuthOut.value = TheAp.note.azimuth
              /\ ~azimuthOut.estimated
        /\ azimuthOut.estimated =>
              TheAp.heading = None /\ ~HasOverride(TheAp)

\* the inventory's devices, other than the access point, that share its ssid
Associated == {n \in 2..Len(devices) : devices[n].ssid = TheAp.ssid}

BearingOf(d) ==
    CASE d.latitude = 8993 /\ d.longitude = 0 -> 0
      [] d.latitude = 8857 /\ d.longitude = 1562 -> 10
      [] d.latitude = 8857 /\ d.longitude = 0 - 1562 -> 350
      [] d.latitude = 88566 /\ d.longitude = 0 - 15617 -> 350
      [] d.latitude = 0 /\ d.longitude = 8993 -> 90
      [] d.latitude = 0 - 8993 /\ d.longitude = 0 -> 180
      [] d.latitude = 0 /\ d.longitude = 0 - 8993 -> 270

\* C15: with one or more associated stations the estimate lies in [0, 360);
\* a single station due north gives 0, and two stations at bearings 350 and
\* 10 degrees give 0.
C15_CircularMean ==
    ( /\ azimuthOut.op = "estimate_ap_azimuth"
      /\ Associated # {}
      /\ TheAp.latitude # None
      /\ \A n \in Associated : devices[n].latitude # None ) =>
        /\ azimuthOut.kind = "return"
        /\ 0 <= azimuthOut.value /\ azimuthOut.value < 360
        /\ (\A n \in Associated : BearingOf(devices[n]) = 0)
              => azimuthOut.value = 0
        /\ ( /\ Cardinality(Associated) = 2
             /\ {BearingOf(devices[n]) : n \in Associated} = {350, 10} )
              => azimuthOut.value = 0

(***************************************************************************)
(* UNMSClient.get_aps: the Antenna records built from the inventory.       *)
(***************************************************************************)
\* how many devices the inventory of get_aps holds
MaxAps == 2

\* lines 41-53 and 55-67 (the two branches build the same record): the
\* fields of the Antenna that come from orientation, tilt and frequency
AntennaOf(device, azimuth) ==
    [azimuth |-> azimuth,
     downtilt |-> IF device.tilt # None /\ device.tilt # 0 THEN device.tilt ELSE 0,
     frequency |-> device.frequency,
     latitude |-> device.latitude, longitude |-> device.longitude]

\* lines 38-67 from device n on; is_ap stands for the tests of lines 39-40
\* and 54. An exception of get_azimuth leaves get_aps.
RECURSIVE BuildAntennas(_, _, _)
BuildAntennas(devs, n, acc) ==
    IF n > Len(devs) THEN Returned(acc)
    ELSE IF ~devs[n].is_ap THEN BuildAntennas(devs, n + 1, acc)
    ELSE LET az == get_azimuth(devs, devs[n]) IN
         IF az.kind = "raise" THEN Raised
         ELSE BuildAntennas(devs, n + 1, Append(acc, AntennaOf(devs[n], az.value)))

\* lines 30-68
get_aps(devs) == BuildAntennas(devs, 1, <<>>)

\* access points on one tower at (0, 0), as the management system may report
\* them: with or without heading, tilt and note, the tilt up or down
ReportedAps ==
    { Device(TRUE, "net1", 0, 0, h, t, f, n) :
        h \in {None, 90, 360}, t \in {None, 5, 0 - 5}, f \in {5500, 0},
        n \in {NoNote, NoteText, NoteAzimuth(0 - 90)} }

InitAps ==
    /\ config = Config(ArcSteps, RadialPoints, ProcessingThreads)
    /\ dataset = NoDataset
    /\ radio = NoRadio
    /\ RasterIdle
    /\ ProfileIdle
    /\ MaskIdle
    /\ RenderIdle
    /\ SampleIdle
    /\ LosIdle
    /\ BatchIdle
    /\ FreqIdle
    /\ ConeIdle
    /\ \E n \in 1..MaxAps :
          devices \in [1..n -> ReportedAps
                                 \cup {Device(FALSE, "net1", 8993, 0, None, None,
                                              5500, NoNote)}]
    /\ azimuthOut = NoAzimuth
    /\ aps = NoAps

\* one call of get_aps
CallGetAps ==
    /\ aps = NoAps
    /\ aps' = get_aps(devices)
    /\ UNCHANGED <<notUnms, devices, azimuthOut>>

NextAps == CallGetAps

SpecAps == InitAps /\ [][NextAps]_vars

\* C16: every Antenna get_aps produces has its azimuth in [0, 360), a
\* downtilt that is not negative and a strictly positive frequency.
C16_RadioInvariant ==
    aps.kind = "return" =>
        \A n \in DOMAIN aps.value :
            /\ 0 <= aps.value[n].azimuth /\ aps.value[n].azimuth < 360
            /\ aps.value[n].downtilt >= 0
            /\ aps.value[n].frequency > 0

(***************************************************************************)
(* The radio profile of an Antenna (models/antenna.py): beamwidths in      *)
(* tenths of a degree, ranges in metres.                                   *)
(***************************************************************************)
\* the keywords of the profile tables that model.lower() contains, for the
\* model names of the inventory
ModelKeywords(model) ==
    CASE model = "R5AC-Lite" -> {"r5ac", "ac"}
      [] model = "RP-5AC-Gen2" -> {"ac"}
      [] model = "PS-5AC" -> {"ps-5ac", "ac"}
      [] model = "LAP-GPS" -> {"lap-gps"}
      [] model = "airMAX AC" -> {"airmax", "ac"}
      [] model = "airMAX" -> {"airmax"}
      [] model = "LiteMax" -> {"litemax"}
      [] model = "PowerBeam" -> {"powerbeam"}
      [] model = "Wave-AP" -> {"wave-ap"}
      [] model = "Wave-AP-Micro" -> {"wave-ap", "micro"}
      [] model = "Wave-Pro" -> {"wave-pro"}
      [] model = "Wave-LR" -> {"wave-lr"}
      [] model = "AF60-LR" -> {"af60"}
      [] model = "NanoStation" -> {}
      [] model = "" -> {}

\* the same for antenna.lower()
AntennaKeywords(name) ==
    CASE name = "AMO-5G10" -> {"amo-5g10"}
      [] name = "Horn-5-60" -> {"horn"}
      [] name = "Sector 90" -> {}
      [] name = "" -> {}

\* `keyword in model_lower` and `keyword in antenna_lower`
InModel(keyword, u) == keyword \in ModelKeywords(u.model)
InAntenna(keyword, u) == keyword \in AntennaKeywords(u.antenna)

\* the truth value Python gives a string used as a condition
Truthy(str) == str # ""

\* lines 230-264
model_beamwidth(u) ==
    IF InModel("r5ac", u) /\ InAntenna("amo-5g10", u) THEN <<3600, 120>>
    ELSE IF InModel("lap-gps", u) THEN <<900, 200>>
    ELSE IF InModel("airmax", u)
    THEN (IF InModel("ac", u) THEN <<900, 70>> ELSE <<600, 120>>)
    ELSE IF InModel("litemax", u) THEN <<1200, 100>>
    ELSE IF InModel("powerbeam", u) THEN <<300, 300>>
    ELSE IF InModel("wave-ap", u)
    THEN (IF InModel("micro", u) THEN <<900, 300>> ELSE <<300, 30>>)
    ELSE IF InModel("wave-pro", u) THEN <<13, 13>>
    ELSE IF InModel("af60", u) THEN <<16, 16>>
    ELSE <<600, 150>>

\* lines 266-298; the condition of line 271 is `"r5ac" in model_lower or
\* "rp-5ac"`, whose second operand is a string
model_range_m(u) ==
    IF InModel("r5ac", u) \/ Truthy("rp-5ac")
    THEN (IF InAntenna("amo-5g10", u) THEN 750 ELSE 3000)
    ELSE IF InModel("ps-5ac", u) THEN 3000
    ELSE IF InModel("lap-gps", u) THEN 2000
    ELSE IF InModel("wave-ap", u)
    THEN (IF InModel("micro", u) THEN 6000 ELSE 8000)
    ELSE IF InModel("wave-pro", u) THEN 15000
    ELSE IF InModel("wave-lr", u) THEN 12000
    ELSE IF InModel("af60", u) THEN 12000
    ELSE 5000

\* the truth value Python gives an optional number: None and 0 are falsy
Falsy(x) == x = None \/ x = 0

\* lines 220-223 and 225-228: `override or model value`
beamwidth_horizontal(u) ==
    IF Falsy(u.beamwidth_h) THEN model_beamwidth(u)[1] ELSE u.beamwidth_h
beamwidth_vertical(u) ==
    IF Falsy(u.beamwidth_v) THEN model_beamwidth(u)[2] ELSE u.beamwidth_v

ModelNames ==
    {"R5AC-Lite", "RP-5AC-Gen2", "PS-5AC", "LAP-GPS", "airMAX AC", "airMAX",
     "LiteMax", "PowerBeam", "Wave-AP", "Wave-AP-Micro", "Wave-Pro", "Wave-LR",
     "AF60-LR", "NanoStation", ""}
AntennaNames == {"AMO-5G10", "Horn-5-60", "Sector 90", ""}

InitProfile ==
    /\ config = Config(ArcSteps, RadialPoints, ProcessingThreads)
    /\ dataset = NoDataset
    /\ radio = NoRadio
    /\ RasterIdle
    /\ UnmsIdle
    /\ MaskIdle
    /\ RenderIdle
    /\ SampleIdle
    /\ LosIdle
    /\ BatchIdle
    /\ FreqIdle
    /\ ConeIdle
    /\ unit \in [model : ModelNames, antenna : AntennaNames,
                 beamwidth_h : {None, 0, 450}, beamwidth_v : {None, 0, 100}]
    /\ resolved = NoResolved

\* the beamwidth properties and the two lookups read off one Antenna
ResolveProfile ==
    /\ resolved = NoResolved
    /\ resolved' = [beamwidth_horizontal |-> beamwidth_horizontal(unit),
                    beamwidth_vertical |-> beamwidth_vertical(unit),
                    model_beamwidth |-> model_beamwidth(unit),
                    range_m |-> model_range_m(unit)]
    /\ UNCHANGED <<notProfile, unit>>

NextProfile == ResolveProfile

SpecProfile == InitProfile /\ [][NextProfile]_vars

\* the model and the antenna subtype contain no keyword of the profile tables
MatchesNoRow == ModelKeywords(unit.model) = {} /\ AntennaKeywords(unit.antenna) = {}

\* C17: for a model and antenna subtype matching no row of the profile table
\* the profile is the default: beamwidths (60, 15) and range 5000 m.
C17_DefaultProfile ==
    (resolved # NoResolved /\ MatchesNoRow) =>
        /\ resolved.model_beamwidth = <<600, 150>>
        /\ resolved.range_m = 5000

\* C18: beamwidth_horizontal and beamwidth_vertical are the override whenever
\* one is present, whatever its value (0 included), and the model table's
\* value only without an override.
C18_OverrideWins ==
    resolved # NoResolved =>
        /\ resolved.beamwidth_horizontal =
              IF unit.beamwidth_h # None THEN unit.beamwidth_h
              ELSE resolved.model_beamwidth[1]
        /\ resolved.beamwidth_vertical =
              IF unit.beamwidth_v # None THEN unit.beamwidth_v
              ELSE resolved.model_beamwidth[2]

(***************************************************************************)
(* calculate_viewshed_raster: the visibility mask over the preloaded       *)
(* raster. The radio stands on the raster's north-west corner; the rays of *)
(* the fan run east, one raster row apart, the last ones south of the      *)
(* raster; 100 m make one coordinate unit.                                 *)
(***************************************************************************)
\* line 222: num=36 bearings, and line 223: num=100 distances
RasterAngles == 36
RasterDistances == 100

\* preloaded rasters: flat at 0, or flat but for one spike
RasterBands ==
    {FlatBand} \cup { [c \in Cells |-> IF c = s THEN Spike ELSE 0] : s \in Cells }

\* lines 225-229: the coordinate of distance step k on bearing a
RasterProject(r, a, k) ==
    LET row == IF k = 0 \/ r.beamwidth = 0
                  \/ (r.beamwidth = 360 /\ a = RasterAngles - 1)
               THEN 0
               ELSE (a * (RasterRows + 2)) \div RasterAngles
    IN  [lat |-> (RasterRows - row) * CellSize,
         lon |-> (k * (r.distance_m \div 100)) \div (RasterDistances - 1)]

\* line 216 and line 232: array_bounds and the inclusive test against them
WithinBounds(p) ==
    /\ 0 <= p.lon /\ p.lon <= RasterCols * CellSize
    /\ 0 <= p.lat /\ p.lat <= RasterRows * CellSize

\* line 237: rowcol, the affine transform inverted and floored
RowCol(p) ==
    <<((RasterRows * CellSize) - p.lat) \div CellSize, p.lon \div CellSize>>

\* line 242 letting an index one past the last row or column through
WithinShapeInclusive(rc) ==
    /\ 0 <= rc[1] /\ rc[1] <= RasterRows
    /\ 0 <= rc[2] /\ rc[2] <= RasterCols

\* line 242
WithinShape(rc) ==
    /\ 0 <= rc[1] /\ rc[1] < RasterRows
    /\ 0 <= rc[2] /\ rc[2] < RasterCols

\* lines 232-243: the sample is not skipped
Sampled(r, a, k) ==
    LET p == RasterProject(r, a, k)
    IN  WithinBounds(p) /\ WithinShape(RowCol(p))

\* line 249, floored: antenna_height - dist * tan(radians(downtilt)), with
\* dist = k * distance_m / 99 and the downtilt taken with its sign
SignalHeight(r, k) ==
    LET den == (RasterDistances - 1) * 100000
        sink == k * r.distance_m * Tan5(Abs(r.downtilt))
    IN  IF r.downtilt >= 0
        THEN r.height - ((sink + den - 1) \div den)
        ELSE r.height + (sink \div den)

\* lines 246-252: the cell's elevation does not exceed the signal height
Unobstructed(array, r, a, k) ==
    array[RowCol(RasterProject(r, a, k))] <= SignalHeight(r, k)

RasterSamples == (0..(RasterAngles - 1)) \X (0..(RasterDistances - 1))

\* lines 211-255. Indexing raster_array beyond its shape raises IndexError.
\* marks holds the (a, k) of the loops that reached line 253.
viewshed_raster(array, r) ==
    LET reached == {s \in RasterSamples : Sampled(r, s[1], s[2])}
        CellOf(s) == RowCol(RasterProject(r, s[1], s[2]))
    IN  IF \E s \in reached : CellOf(s) \notin Cells
        THEN [kind |-> "raise", grid |-> <<>>, marks |-> {}]
        ELSE LET marks == {s \in reached : Unobstructed(array, r, s[1], s[2])}
                 ones == {CellOf(s) : s \in marks}
             IN  [kind |-> "return",
                  grid |-> [c \in Cells |-> IF c \in ones THEN 1 ELSE 0],
                  marks |-> marks]

RasterRadios ==
    [azimuth : {0}, height : {30}, downtilt : {0, 5, 0 - 5},
     beamwidth : {0, 90, 360}, distance_m : {400, 1000}, station_height : {6}]

\* the raster was preloaded at start-up
InitRaster ==
    /\ config = Config(ArcSteps, RadialPoints, ProcessingThreads)
    /\ dataset = NoDataset
    /\ raster \in {LoadedRaster(b) : b \in RasterBands}
    /\ radio \in RasterRadios
    /\ UnmsIdle
    /\ ProfileIdle
    /\ MaskIdle
    /\ RenderIdle
    /\ SampleIdle
    /\ LosIdle
    /\ BatchIdle
    /\ FreqIdle
    /\ ConeIdle

\* line 219 binding `viewshed` to raster_array itself instead of to a new
\* array: the visible cells are marked in the shared grid
calculate_viewshed_raster_in_place ==
    /\ mask = NoMask
    /\ mask' = viewshed_raster(raster.array, radio)
    /\ raster' = IF mask'.kind = "return"
                 THEN [raster EXCEPT !.array =
                          [c \in Cells |-> IF mask'.grid[c] = 1 THEN 1 ELSE @[c]]]
                 ELSE raster
    /\ UNCHANGED notMask

\* one call of calculate_viewshed_raster
calculate_viewshed_raster ==
    /\ mask = NoMask
    /\ mask' = viewshed_raster(raster.array, radio)
    /\ UNCHANGED <<notMask, raster>>

NextRaster == calculate_viewshed_raster

SpecRaster == InitRaster /\ [][NextRaster]_vars

\* the sample (a, k) lies on the raster and its terrain is above the signal
RasterObstructed(a, k) ==
    LET p == RasterProject(radio, a, k)
    IN  /\ RowCol(p) \in Cells
        /\ 0 <= p.lon /\ 0 <= p.lat
        /\ raster.array[RowCol(p)] > SignalHeight(radio, k)

\* C19: once a sample of a bearing is obstructed, no sample farther out on
\* that bearing marks its cell 1.
C19_RayStopsAtObstruction ==
    mask.kind = "return" =>
        \A s \in mask.marks :
            \A k0 \in 0..(s[2] - 1) : ~RasterObstructed(s[1], k0)

\* the coordinate lies within the georeferenced extent of the raster
OnRaster(p) ==
    /\ 0 <= p.lon /\ p.lon < RasterCols * CellSize
    /\ 0 < p.lat /\ p.lat <= RasterRows * CellSize

\* the cells to which a sample on the raster maps whose elevation is not
\* above the signal height at the sample's distance
PassedCells ==
    { RowCol(RasterProject(radio, s[1], s[2])) :
        s \in { t \in RasterSamples :
                  /\ OnRaster(RasterProject(radio, t[1], t[2]))
                  /\ raster.array[RowCol(RasterProject(radio, t[1], t[2]))]
                        <= SignalHeight(radio, t[2]) } }

\* some sample of the fan falls outside the raster's extent
SomeSampleOutside ==
    \E s \in RasterSamples : ~OnRaster(RasterProject(radio, s[1], s[2]))

\* C20: calculate_viewshed_raster does not raise over samples outside the
\* raster; the grid has the shape of the DEM, holds only 0 and 1, and holds 1
\* only where a sample on the raster mapped and passed the visibility test.
C20_MaskWithinRaster ==
    mask # NoMask =>
        /\ mask.kind = "return"
        /\ DOMAIN mask.grid = Cells
        /\ \A c \in Cells : mask.grid[c] \in {0, 1}
        /\ \A c \in Cells : mask.grid[c] = 1 => c \in PassedCells

\* a fan reaching beyond the raster came back with visible and hidden cells
C20_Witness ==
    /\ mask.kind = "return"
    /\ radio.distance_m = 1000 /\ radio.beamwidth = 90
    /\ SomeSampleOutside
    /\ \E c \in Cells : mask.grid[c] = 1
    /\ \E c \in Cells : mask.grid[c] = 0

(***************************************************************************)
(* The pairing of points and elevations in calculate_viewshed.             *)
(***************************************************************************)
\* the elevations gathered for the call whose result `viewshed` holds
GatheredElevations ==
    [k \in 1..NumTasks |-> TaskResult(dataset, radio, k - 1, "ok")]

\* C23: over a loaded DEM, every (ray, step) the consumption loop examines is
\* paired with the elevation of the task created for that same (ray, step),
\* also on rays after a truncated one, and the steps of a ray are examined in
\* rising order.
C23_PointPairedWithOwnElevation ==
    (viewshed # NoResult /\ dataset.open) =>
        LET log == ConsumptionLog(GatheredElevations, radio)
        IN  \A n \in DOMAIN log :
                /\ TaskRay(log[n].task_index) = log[n].ray
                /\ TaskStep(log[n].task_index) = log[n].step
                /\ (n > 1 /\ log[n - 1].ray = log[n].ray)
                      => log[n - 1].step < log[n].step

(***************************************************************************)
(* The range table of the radio profile as documented.                     *)
(***************************************************************************)
\* the model string contains "r5ac" or "rp-5ac"
IsRocketAc(model) == "r5ac" \in ModelKeywords(model) \/ model = "RP-5AC-Gen2"

\* what the rows of the range table give when the RocketAC row applies only
\* to RocketAC models and the first matching row wins
DocumentedRange(u) ==
    IF IsRocketAc(u.model)
    THEN (IF InAntenna("amo-5g10", u) THEN 750 ELSE 3000)
    ELSE IF InModel("ps-5ac", u) THEN 3000
    ELSE IF InModel("lap-gps", u) THEN 2000
    ELSE IF InModel("wave-ap", u)
    THEN (IF InModel("micro", u) THEN 6000 ELSE 8000)
    ELSE IF InModel("wave-pro", u) THEN 15000
    ELSE IF InModel("wave-lr", u) THEN 12000
    ELSE IF InModel("af60", u) THEN 12000
    ELSE 5000

\* C24: the RocketAC row (750 m with an AMO-5G10 antenna, else 3000 m)
\* applies only to models containing "r5ac" or "rp-5ac"; every other model
\* reaches the later rows and the default: wave-ap 8000 (micro 6000),
\* wave-pro 15000, af60 12000, lap-gps 2000, unknown 5000.
C24_RocketRowOnlyForRocket ==
    resolved # NoResolved =>
        /\ resolved.range_m = DocumentedRange(unit)
        /\ unit.model = "Wave-AP" => resolved.range_m = 8000
        /\ unit.model = "Wave-AP-Micro" => resolved.range_m = 6000
        /\ unit.model = "Wave-Pro" => resolved.range_m = 15000
        /\ unit.model = "AF60-LR" => resolved.range_m = 12000
        /\ unit.model = "LAP-GPS" => resolved.range_m = 2000
        /\ unit.model = "NanoStation" => resolved.range_m = 5000

(***************************************************************************)
(* The sampling batch under the scheduling of the event loop: while a step *)
(* of the batch is possible one is taken (a task that can enter the        *)
(* semaphore does, a read handed to a worker thread returns or fails, and  *)
(* gather resumes its caller once every task is done).                     *)
(***************************************************************************)
BatchTasks == 1..((BatchArcSteps + 1) * BatchRadialPoints)

InitBatchFair == InitBatch /\ dataset.open

SpecBatchFair ==
    /\ InitBatchFair
    /\ [][NextBatch]_vars
    /\ WF_vars(NextBatch)

\* the position of task k of the first call ("none" before it is created)
TaskAt(k) ==
    IF callPc[1] # "idle" /\ k \in DOMAIN taskPc[1] THEN taskPc[1][k] ELSE "none"

\* C25: the batch holds one task per (bearing, distance) pair,
\* (steps + 1) * points_per_line in all; a permit is out exactly while a read
\* is under way (it comes back after a read that failed as after one that
\* succeeded); a task finishes only after it was admitted; consumption starts
\* only once every task is done; and a batch that was started returns, so
\* that no task is left waiting.
C25_BatchCompletes ==
    /\ [](callPc[1] # "idle" =>
            Len(taskPc[1]) = (config.arc_steps + 1) * config.arc_radial_points)
    /\ [](callPc[1] = "gathering" =>
            sem[1] + Cardinality(InFlight(1)) = config.processing_threads)
    /\ [](callPc[1] = "returned" =>
            /\ \A k \in BatchTasks : TaskAt(k) = "done"
            /\ sem[1] = config.processing_threads)
    /\ [][\A k \in BatchTasks :
            (TaskAt(k) # "done" /\ TaskAt(k)' = "done") => TaskAt(k) = "reading"]_vars
    /\ (callPc[1] = "gathering") ~> (callPc[1] = "returned")

\* a batch that returned with every permit back although a read had failed
C25_Witness ==
    /\ callPc[1] = "returned"
    /\ sem[1] = config.processing_threads
    /\ \E k \in BatchTasks : TaskAt(k) = "done" /\ taskIo[1][k] = "fail"
    /\ \A k \in BatchTasks : TaskAt(k) = "done"

\* a note that holds a JSON object without the key "azimuth"
NoteLacksAzimuth(d) == d.note.present /\ d.note.json /\ ~d.note.has_azimuth

\* C28: for a device without a sensor heading that has no note, or a note
\* whose JSON lacks "azimuth", get_azimuth runs estimate_ap_azimuth and gives
\* what the estimator gives.
C28_FallsThroughToEstimate ==
    (/\ azimuthOut.op = "get_azimuth"
     /\ TheAp.heading = None
     /\ (~TheAp.note.present \/ NoteLacksAzimuth(TheAp))) =>
        LET est == estimate_ap_azimuth(devices, TheAp)
        IN  /\ azimuthOut.estimated
            /\ azimuthOut.kind = est.kind
            /\ azimuthOut.value = est.value

(***************************************************************************)
(* The shared elevation data under concurrent use: one radio's sampling    *)
(* batch, which its caller may abandon, beside another radio's raster      *)
(* viewshed.                                                               *)
(***************************************************************************)
\* config map.arc_radial_points of the batch that runs beside a raster
\* viewshed
SharedRadialPoints == 1

\* app.py lines 28-36 (task.cancel()) reaching the await of line 127: the
\* caller is cancelled, gather cancels the tasks that are not done, and a
\* task cancelled inside `async with` gives its permit back
Abandon(c) ==
    /\ callPc[c] = "gathering"
    /\ callPc' = [callPc EXCEPT ![c] = "cancelled"]
    /\ taskPc' = [taskPc EXCEPT ![c] =
                    [k \in Tasks |-> IF @[k] = "done" THEN "done" ELSE "cancelled"]]
    /\ sem' = [sem EXCEPT ![c] = @ + Cardinality(InFlight(c))]
    /\ UNCHANGED <<notBatch, taskIo, taskOut, elevations, boundary>>

\* the elevation data was loaded at start-up; the fan has its two edge
\* bearings
InitShared ==
    /\ config = Config(1, SharedRadialPoints, ProcessingThreads)
    /\ dataset \in {NoDataset, OpenDataset(SlopeBand)}
    /\ raster = LoadedRaster(FlatBand)
    /\ radio = BatchRadio
    /\ LosIdle
    /\ UnmsIdle
    /\ ProfileIdle
    /\ MaskIdle
    /\ RenderIdle
    /\ SampleIdle
    /\ BatchIdle
    /\ FreqIdle
    /\ ConeIdle

NextShared ==
    \/ StartViewshed(1)
    \/ \E k \in Tasks : Acquire(1, k)
    \/ \E k \in Tasks : FinishRead(1, k)
    \/ FinishViewshed(1)
    \/ Abandon(1)
    \/ calculate_viewshed_raster

SpecShared == InitShared /\ [][NextShared]_vars

\* C26: no step of get_elevation, calculate_viewshed or
\* calculate_viewshed_raster, in whatever order the radios' steps come and
\* also when a batch is abandoned, changes the grid, the transform or the
\* georeferencing of the loaded elevation data.
C26_DatasetNeverWritten ==
    [][dataset' = dataset /\ raster' = raster]_vars

\* a batch abandoned after one of its reads had finished, beside a raster
\* viewshed that marked visible cells, with the elevation data as loaded
C26_Witness ==
    /\ callPc[1] = "cancelled"
    /\ \E k \in Tasks : taskPc[1][k] = "done"
    /\ \E k \in Tasks : taskPc[1][k] = "cancelled"
    /\ mask.kind = "return"
    /\ \E c \in Cells : mask.grid[c] = 1
    /\ raster = LoadedRaster(FlatBand)

(***************************************************************************)
(* generate_map: one add_antenna_directional_cone task per antenna, all    *)
(* awaited together, then the map is finalized and saved.                  *)
(***************************************************************************)
\* frequency_to_color, lines 35-69: the colormap the branches pick for the
\* band name (the substring tests of lines 46-59 applied to the nine names
\* frequency_band_name can give); subscripting the band of line 35 raises
\* for a frequency that has none
frequency_to_color(f) ==
    LET band == frequency_band_name(f)
    IN  IF frequency_band(f) = NoBand THEN [kind |-> "raise", colormap |-> ""]
        ELSE [kind |-> "return",
              colormap |->
                CASE band = "ISM" -> "hot"
                  [] band = "U-NII-1" -> "spring"
                  [] band = "U-NII-2A" -> "summer"
                  [] band = "U-NII-2B" -> "autumn"
                  [] band = "U-NII-2C" -> "winter"
                  [] band = "U-NII-3" -> "gist_ncar"
                  [] band = "U-NII-4" -> "turbo"
                  [] band = "U-NII-5...8" -> "gist_ncar"
                  [] band = "Vband" -> "autumn"]

\* lines 151-154: the layer the polygon is added to
LayerOf(f) ==
    IF f < 7000 THEN "5ghz"
    ELSE IF 55000 <= f /\ f < 72000 THEN "60ghz"
    ELSE "none"

\* a task whose exception left add_antenna_directional_cone
Propagates == "raised"

\* lines 156-157: the handler prints the exception and the task ends
Caught == "error"

\* a task that was created and has no coverage points yet
NewTask == [pc |-> "created", points |-> "none"]

\* the antennas of a request: named as an access point or not, on a 2.4 GHz,
\* 5 GHz, 6 GHz or 60 GHz channel or on a frequency of no band
RenderAntennas ==
    [ap : BOOLEAN, frequency : {2437, 4000, 5500, 7000, 60480}]

\* app.py lines 60-68: the antennas were fetched, the renderer built and one
\* task per antenna created
InitRender ==
    /\ config = Config(ArcSteps, RadialPoints, ProcessingThreads)
    /\ dataset = NoDataset
    /\ radio = NoRadio
    /\ RasterIdle
    /\ UnmsIdle
    /\ ProfileIdle
    /\ MaskIdle
    /\ SampleIdle
    /\ LosIdle
    /\ BatchIdle
    /\ FreqIdle
    /\ ConeIdle
    /\ fleet \in [1..MaxAps -> RenderAntennas]
    /\ coneTask = [n \in 1..MaxAps |-> NewTask]
    /\ renderer = NoRenderer
    /\ request = "gathering"

\* what can go wrong before the polygon: the coverage cone (it raises or
\* gives None) and, for an access point, the viewshed raster, its image (an
\* empty raster raises at line 221) or its overlay
Faults(a) == IF a.ap THEN {"none", "cone", "viewshed"} ELSE {"none", "cone"}

\* lines 93-139 of task n: the calculator, the coverage cone and, for an
\* access point, the viewshed raster, its image and its overlay
PrepareCoverage(n) ==
    /\ request = "gathering"
    /\ coneTask[n].pc = "created"
    /\ \E fault \in Faults(fleet[n]) :
        /\ coneTask' = [coneTask EXCEPT ![n] =
              CASE fault = "none" -> [pc |-> "covered", points |-> "computed"]
                [] fault = "cone" -> [pc |-> Caught, points |-> "none"]
                [] fault = "viewshed" -> [pc |-> Caught, points |-> "computed"]]
        /\ renderer' = IF fault = "none" /\ fleet[n].ap
                       THEN [renderer EXCEPT !.overlays = @ \cup {n}]
                       ELSE renderer
    /\ UNCHANGED <<notRender, fleet, request>>

\* lines 141-154 of task n: the colour, the polygon and its layer
AddPolygon(n) ==
    /\ request = "gathering"
    /\ coneTask[n].pc = "covered"
    /\ LET f == fleet[n].frequency
           colour == frequency_to_color(f)
       IN  IF colour.kind = "raise"
           THEN /\ coneTask' = [coneTask EXCEPT ![n].pc = Caught]
                /\ UNCHANGED renderer
           ELSE /\ coneTask' = [coneTask EXCEPT ![n].pc = "done"]
                /\ renderer' =
                     [renderer EXCEPT
                        !.polygons = @ \cup {n},
                        !.layer_5ghz = IF LayerOf(f) = "5ghz" THEN @ \cup {n} ELSE @,
                        !.layer_60ghz = IF LayerOf(f) = "60ghz" THEN @ \cup {n} ELSE @]
    /\ UNCHANGED <<notRender, fleet, request>>

Finished(n) == coneTask[n].pc \in {"done", "error"}

\* app.py lines 69-89: gather returns when every task has ended and the map
\* is finalized and saved; an exception of a task leaves gather at once and
\* the handler of line 79 answers with the error page
AwaitGather ==
    /\ request = "gathering"
    /\ \/ \E n \in DOMAIN coneTask : coneTask[n].pc = "raised"
       \/ \A n \in DOMAIN coneTask : Finished(n)
    /\ IF \E n \in DOMAIN coneTask : coneTask[n].pc = "raised"
       THEN /\ request' = "failed"
            /\ UNCHANGED renderer
       ELSE /\ request' = "served"
            /\ renderer' = [renderer EXCEPT !.finalized = TRUE, !.saved = TRUE]
    /\ UNCHANGED <<notRender, fleet, coneTask>>

NextRender ==
    \/ \E n \in 1..MaxAps : PrepareCoverage(n)
    \/ \E n \in 1..MaxAps : AddPolygon(n)
    \/ AwaitGather

SpecRender == InitRender /\ [][NextRender]_vars

\* C21: a failure in one radio's coverage, viewshed or polygon never ends the
\* request with an error; while the tasks are awaited every task that has not
\* ended can take its next step whatever became of the others, and once all
\* have ended the map can be finalized; a served request has every task
\* ended and the map finalized and saved.
C21_FailureStaysInItsTask ==
    /\ request # "failed"
    /\ \A n \in DOMAIN coneTask : coneTask[n].pc # "raised"
    /\ request = "gathering" =>
          /\ \A n \in DOMAIN coneTask :
                ~Finished(n) => ENABLED (PrepareCoverage(n) \/ AddPolygon(n))
          /\ (\A n \in DOMAIN coneTask : Finished(n)) => ENABLED AwaitGather
    /\ request = "served" =>
          /\ \A n \in DOMAIN coneTask : Finished(n)
          /\ renderer.finalized /\ renderer.saved

\* a served map that holds one radio's polygon although another radio's
\* task had failed
C21_Witness ==
    /\ request = "served"
    /\ renderer.saved
    /\ \E n \in DOMAIN coneTask : coneTask[n].pc = "error"
    /\ \E n \in DOMAIN coneTask :
          coneTask[n].pc = "done" /\ n \in renderer.polygons

\* C22: a radio whose frequency lies in no band and whose coverage was
\* computed still gets a colour and its polygon.
C22_UncategorizedStillDrawn ==
    \A n \in DOMAIN coneTask :
        (/\ frequency_band(fleet[n].frequency) = NoBand
         /\ coneTask[n].points = "computed"
         /\ ~(fleet[n].ap /\ n \notin renderer.overlays)
         /\ Finished(n)) =>
            /\ coneTask[n].pc = "done"
            /\ n \in renderer.polygons

\* C27: the polygon of a radio with a known band is in exactly one of the
\* 5 GHz and the 60 GHz layer.
C27_KnownBandHasOneLayer ==
    \A n \in DOMAIN coneTask :
        (frequency_band(fleet[n].frequency) # NoBand /\ n \in renderer.polygons) =>
            (n \in renderer.layer_5ghz) # (n \in renderer.layer_60ghz)

=============================================================================
